---- MODULE Spec2Model ----
(***************************************************************************)
(* Mobile Plan Recommender (src/mobile_plan_recommender.py).               *)
(*                                                                         *)
(* Representation.  Text is a sequence of one-character strings, so that   *)
(* str.strip() is computed.  Reals are dyadic: a real is held as its       *)
(* number of HALVES (3 stands for 1.5), a cost as its number of QUARTERS   *)
(* (a product of two reals), so float arithmetic on the values drawn here  *)
(* is exact.  Minutes are whole integers.  A Python dict is a sequence of  *)
(* [code, plan] pairs in insertion order.                                  *)
(***************************************************************************)
EXTENDS Integers, Sequences, FiniteSets, TLC

VARIABLES
    source,         \* the plans document handed to load_plans
    plans,          \* main's `plans`: the catalog, in dict iteration order
    current_usage,  \* main's `current_usage`: {} or a set holding one profile
    usage_details,  \* the rows of table usage_details, in rowid order
    table_exists,   \* whether CREATE TABLE has run on the database file
    clock,          \* CURRENT_TIMESTAMP, in whole seconds
    pc,             \* where main is: "start", "loaded", "menu", "exited", "crashed"
    last_op,        \* the handler that ran last
    output,         \* what the handler that ran last printed
    ret             \* what the handler that ran last returned

vars == <<source, plans, current_usage, usage_details, table_exists, clock,
          pc, last_op, output, ret>>

----------------------------------------------------------------------------
(* Bounds of the model *)

MaxEntries == 5     \* longest plans list of a document given to the loader alone
MaxCatalog == 3     \* longest plans list of a document in the recommender runs
MaxMinutes == 1     \* largest minutes a user enters
MaxData == 1        \* largest data_gb a user enters, in halves
MaxRecords == 2     \* most rows saved to usage_details
MaxClock == 1       \* last second the clock reaches

----------------------------------------------------------------------------
(* Text *)

Whitespace == {" ", "\t", "\n"}
DigitChars == <<"0", "1", "2", "3", "4", "5", "6", "7", "8", "9">>
IsDigit(c) == \E i \in 1..Len(DigitChars) : DigitChars[i] = c
DigitVal(c) == (CHOOSE i \in 1..Len(DigitChars) : DigitChars[i] = c) - 1

RECURSIVE LStrip(_)
LStrip(s) == IF s # <<>> /\ Head(s) \in Whitespace THEN LStrip(Tail(s)) ELSE s

RECURSIVE RStrip(_)
RStrip(s) ==
    IF s # <<>> /\ s[Len(s)] \in Whitespace THEN RStrip(SubSeq(s, 1, Len(s) - 1)) ELSE s

\* str.strip()
Strip(s) == RStrip(LStrip(s))

RECURSIVE NatToText(_)
NatToText(n) ==
    IF n < 10 THEN <<DigitChars[n + 1]>>
    ELSE NatToText(n \div 10) \o <<DigitChars[(n % 10) + 1]>>

IntToText(n) == IF n < 0 THEN <<"-">> \o NatToText(-n) ELSE NatToText(n)

RECURSIVE DigitsValue(_)
DigitsValue(s) ==
    IF s = <<>> THEN 0
    ELSE 10 * DigitsValue(SubSeq(s, 1, Len(s) - 1)) + DigitVal(s[Len(s)])

AllDigits(s) == s # <<>> /\ \A i \in 1..Len(s) : IsDigit(s[i])

\* int() truncates a real toward zero; h is a number of halves
Trunc(h) == IF h >= 0 THEN h \div 2 ELSE -((-h) \div 2)

----------------------------------------------------------------------------
(* JSON values as json.load returns them *)

JInt(n) == [t |-> "int", n |-> n, s |-> <<>>]
JReal(h) == [t |-> "real", n |-> h, s |-> <<>>]
JInf == [t |-> "inf", n |-> 0, s |-> <<>>]
JStr(s) == [t |-> "str", n |-> 0, s |-> s]
JBool(b) == [t |-> "bool", n |-> IF b THEN 1 ELSE 0, s |-> <<>>]
JNull == [t |-> "null", n |-> 0, s |-> <<>>]
Absent == [t |-> "absent", n |-> 0, s |-> <<>>]

Ok(v) == [err |-> "none", v |-> v]
Raise(e) == [err |-> e, v |-> 0]

\* str(x)
PyStr(x) ==
    CASE x.t = "str" -> x.s
      [] x.t = "int" -> IntToText(x.n)
      [] x.t = "real" ->
            (IF x.n < 0 THEN <<"-">> ELSE <<>>)
            \o NatToText((IF x.n < 0 THEN -x.n ELSE x.n) \div 2)
            \o <<".", IF x.n % 2 = 0 THEN "0" ELSE "5">>
      [] x.t = "inf" -> <<"i", "n", "f">>
      [] x.t = "bool" -> IF x.n = 1 THEN <<"T", "r", "u", "e">>
                                    ELSE <<"F", "a", "l", "s", "e">>
      [] x.t = "null" -> <<"N", "o", "n", "e">>

\* the sign and the unsigned rest of a numeric literal
Unsigned(s) == IF s # <<>> /\ Head(s) \in {"-", "+"} THEN Tail(s) ELSE s
SignOf(s) == IF s # <<>> /\ Head(s) = "-" THEN -1 ELSE 1

\* int("...") : surrounding whitespace, a sign, decimal digits; else ValueError
IntOfText(s) ==
    LET u == Unsigned(Strip(s)) IN
    IF AllDigits(u) THEN Ok(SignOf(Strip(s)) * DigitsValue(u)) ELSE Raise("ValueError")

\* float("...") on the literals of the model's reals: digits, or digits "." "0"|"5"
\* (the result is in halves); any other text used here raises ValueError
FloatOfText(s) ==
    LET u == Unsigned(Strip(s))
        sg == SignOf(Strip(s))
        n == Len(u)
    IN  IF AllDigits(u) THEN Ok(sg * 2 * DigitsValue(u))
        ELSE IF n >= 3 /\ u[n - 1] = "." /\ u[n] \in {"0", "5"}
                /\ AllDigits(SubSeq(u, 1, n - 2))
             THEN Ok(sg * (2 * DigitsValue(SubSeq(u, 1, n - 2))
                           + (IF u[n] = "5" THEN 1 ELSE 0)))
             ELSE Raise("ValueError")

\* the float infinity that 1e999 parses to
Infinity == "inf"

\* int(x)
PyInt(x) ==
    CASE x.t = "int" -> Ok(x.n)
      [] x.t = "real" -> Ok(Trunc(x.n))
      [] x.t = "bool" -> Ok(x.n)
      [] x.t = "inf" -> Raise("OverflowError")
      [] x.t = "str" -> IntOfText(x.s)
      [] x.t = "null" -> Raise("TypeError")

\* float(x), in halves
PyFloat(x) ==
    CASE x.t = "int" -> Ok(2 * x.n)
      [] x.t = "real" -> Ok(x.n)
      [] x.t = "bool" -> Ok(2 * x.n)
      [] x.t = "inf" -> Ok(Infinity)
      [] x.t = "str" -> FloatOfText(x.s)
      [] x.t = "null" -> Raise("TypeError")

\* bool(x): truthiness, never raises
PyBool(x) ==
    CASE x.t = "bool" -> x.n = 1
      [] x.t \in {"int", "real"} -> x.n # 0
      [] x.t = "inf" -> TRUE
      [] x.t = "str" -> x.s # <<>>
      [] x.t = "null" -> FALSE

----------------------------------------------------------------------------
(* load_plans *)

MinPlans == 5

FieldOrder == <<"plan_code", "provider", "plan_name", "base_cost", "included_minutes",
                "included_data_gb", "cost_per_minute", "cost_per_gb", "roaming_included">>
TextFields == {"plan_code", "provider", "plan_name"}

\* the exceptions the per-entry handler catches
Caught == {"KeyError", "ValueError", "TypeError"}

\* item[k] and the coercion the dict literal applies to it
Coerce(item, k) ==
    IF item.t # "object" THEN Raise("TypeError")
    ELSE IF item.f[k].t = "absent" THEN Raise("KeyError")
    ELSE CASE k \in TextFields -> Ok(Strip(PyStr(item.f[k])))
           [] k = "included_minutes" -> PyInt(item.f[k])
           [] k = "roaming_included" -> Ok(PyBool(item.f[k]))
           [] OTHER -> PyFloat(item.f[k])

\* the first exception raised while the entry is built, in evaluation order,
\* from field i on
RECURSIVE FirstError(_, _)
FirstError(item, i) ==
    IF i > Len(FieldOrder) THEN "none"
    ELSE IF Coerce(item, FieldOrder[i]).err # "none" THEN Coerce(item, FieldOrder[i]).err
    ELSE FirstError(item, i + 1)

EntryError(item) == FirstError(item, 1)

Codes(d) == {d[i].code : i \in 1..Len(d)}
Lookup(d, code) == d[CHOOSE i \in 1..Len(d) : d[i].code = code].plan

\* a dict that moves a reassigned key to the end
DictSetMoveLast(d, code, plan) ==
    Append(SelectSeq(d, LAMBDA e : e.code # code), [code |-> code, plan |-> plan])

\* plans[code] = plan: a new key goes last, an existing key keeps its place
DictSet(d, code, plan) ==
    IF code \in Codes(d)
    THEN [i \in 1..Len(d) |-> IF d[i].code = code THEN [code |-> code, plan |-> plan]
                                                  ELSE d[i]]
    ELSE Append(d, [code |-> code, plan |-> plan])

EntryCode(item) == Coerce(item, "plan_code").v

EntryPlan(item) ==
    [provider |-> Coerce(item, "provider").v,
     plan_name |-> Coerce(item, "plan_name").v,
     base_cost |-> Coerce(item, "base_cost").v,
     included_minutes |-> Coerce(item, "included_minutes").v,
     included_data_gb |-> Coerce(item, "included_data_gb").v,
     cost_per_minute |-> Coerce(item, "cost_per_minute").v,
     cost_per_gb |-> Coerce(item, "cost_per_gb").v,
     roaming_included |-> Coerce(item, "roaming_included").v]

\* the try block of lines 79-91 on one entry: the exception raised, or the key and
\* the plan built
ParseEntry(item) ==
    IF EntryError(item) # "none"
    THEN [err |-> EntryError(item), code |-> <<>>, plan |-> <<>>]
    ELSE [err |-> "none", code |-> EntryCode(item), plan |-> EntryPlan(item)]

----------------------------------------------------------------------------
(* The plan entries drawn *)

T(str) ==
    CASE str = "A" -> <<"A">> [] str = "B" -> <<"B">> [] str = "C" -> <<"C">>
      [] str = "D" -> <<"D">> [] str = " A " -> <<" ", "A", " ">>
      [] str = "  " -> <<" ", " ">> [] str = "no" -> <<"n", "o">>
      [] str = "abc" -> <<"a", "b", "c">> [] str = "1.0" -> <<"1", ".", "0">>
      [] str = " Telco" -> <<" ", "T", "e", "l", "c", "o">>
      [] str = "Saver" -> <<"S", "a", "v", "e", "r">>
      [] str = "Al" -> <<"A", "l">> [] str = " Bo " -> <<" ", "B", "o", " ">>
      [] str = "" -> <<>>

Entry(code, base, incm, incd, cpm, cpg, roam) ==
    [t |-> "object",
     f |-> [plan_code |-> code,
            provider |-> JStr(T(" Telco")),
            plan_name |-> JStr(T("Saver")),
            base_cost |-> base,
            included_minutes |-> incm,
            included_data_gb |-> incd,
            cost_per_minute |-> cpm,
            cost_per_gb |-> cpg,
            roaming_included |-> roam]]

EntA == Entry(JStr(T("A")), JReal(20), JInt(1), JReal(2), JReal(1), JReal(2), JBool(FALSE))
EntB == Entry(JStr(T("B")), JInt(10), JReal(3), JReal(0), JReal(1), JStr(T("1.0")), JBool(TRUE))
EntA2 == Entry(JStr(T(" A ")), JReal(20), JInt(1), JReal(1), JReal(1), JReal(2), JStr(T("no")))
EntC == Entry(JStr(T("C")), JInt(11), JInt(0), JReal(2), JReal(-1), JReal(2), JBool(FALSE))
EntD == Entry(JStr(T("D")), JReal(24), JInt(2), JReal(2), JReal(1), JReal(1), JBool(TRUE))
EntBlank == Entry(JStr(T("  ")), JReal(-2), JInt(-1), JReal(0), JReal(1), JReal(1), JBool(TRUE))
EntNoKey == Entry(JStr(T("B")), JInt(10), JInt(1), JReal(1), JReal(1), Absent, JBool(TRUE))
EntBadValue == Entry(JStr(T("C")), JStr(T("abc")), JInt(1), JReal(1), JReal(1), JReal(1), JBool(TRUE))
EntNotObject == JStr(T("abc"))
EntOverflow == Entry(JStr(T("D")), JReal(24), JInf, JReal(2), JReal(1), JReal(1), JBool(TRUE))

LoadEntries == {EntA, EntB, EntA2, EntC, EntD, EntBlank,
                EntNoKey, EntBadValue, EntNotObject, EntOverflow}
PlanEntries == {EntA, EntB, EntA2, EntC, EntNoKey}

\* ParseEntry on the entries drawn, computed once
Parsed == [item \in LoadEntries \cup PlanEntries |-> ParseEntry(item)]

----------------------------------------------------------------------------
(* load_plans, continued *)

Msg(kind, item, reason) == [kind |-> kind, item |-> item, reason |-> reason]

\* one pass of the for loop body
LoadItem(acc, item) ==
    LET e == Parsed[item] IN
    IF e.err = "none"
    THEN [acc EXCEPT !.plans = DictSet(@, e.code, e.plan)]
    ELSE IF e.err \in Caught
         THEN [acc EXCEPT !.out = Append(@, Msg("warn_entry", item, e.err))]
         ELSE [acc EXCEPT !.raised = e.err]

RECURSIVE LoadItems(_, _)
LoadItems(items, acc) ==
    IF items = <<>> \/ acc.raised # "none" THEN acc
    ELSE LoadItems(Tail(items), LoadItem(acc, Head(items)))

\* load_plans(path): the catalog, what was printed, the exception that escaped
load_plans(doc) ==
    CASE doc.kind = "missing" ->
            [plans |-> <<>>, out |-> <<Msg("warn_missing", JNull, "")>>, raised |-> "none"]
      [] doc.kind = "badjson" ->
            [plans |-> <<>>, out |-> <<Msg("err_parse", JNull, "")>>, raised |-> "none"]
      [] OTHER ->
            LET r == LoadItems(IF doc.has_plans THEN doc.plans ELSE <<>>,
                               [plans |-> <<>>, out |-> <<>>, raised |-> "none"])
            IN  IF r.raised = "none" /\ Len(r.plans) < MinPlans
                THEN [r EXCEPT !.out = Append(@, Msg("note_few", JNull, ""))]
                ELSE r

----------------------------------------------------------------------------
(* The documents drawn *)

SeqsUpTo(S, n) == UNION {[1..k -> S] : k \in 0..n}

Doc(items) == [kind |-> "object", has_plans |-> TRUE, plans |-> items]
FileDocs == {[kind |-> "missing", has_plans |-> FALSE, plans |-> <<>>],
             [kind |-> "badjson", has_plans |-> FALSE, plans |-> <<>>],
             [kind |-> "object", has_plans |-> FALSE, plans |-> <<>>]}
NoFile == [kind |-> "missing", has_plans |-> FALSE, plans |-> <<>>]

\* the documents whose plans list holds at most n of the entries, and the files
DocsOf(entries, n, files) == files \cup {Doc(s) : s \in SeqsUpTo(entries, n)}

----------------------------------------------------------------------------
(* main *)

NoOutput == <<>>
Ret(kind, minutes, data_gb, roaming) ==
    [kind |-> kind, minutes |-> minutes, data_gb |-> data_gb, roaming |-> roaming]
None == Ret("None", 0, 0, FALSE)

Init ==
    /\ source = NoFile
    /\ plans = <<>>
    /\ current_usage = {}
    /\ usage_details = <<>>
    /\ table_exists = FALSE
    /\ clock = 0
    /\ pc = "start"
    /\ last_op = "none"
    /\ output = NoOutput
    /\ ret = None

\* main, line 227: plans = load_plans(PLANS_JSON); an exception that load_plans
\* lets escape ends the run
LoadPlans(entries, n, files) ==
    /\ pc = "start"
    /\ \E doc \in DocsOf(entries, n, files) :
          LET r == load_plans(doc) IN
          /\ source' = doc
          /\ output' = r.out
          /\ IF r.raised = "none"
             THEN plans' = r.plans /\ pc' = "loaded" /\ ret' = None
             ELSE plans' = <<>> /\ pc' = "crashed" /\ ret' = Ret(r.raised, 0, 0, FALSE)
    /\ last_op' = "load_plans"
    /\ current_usage' = {}
    /\ UNCHANGED <<usage_details, table_exists, clock>>

----------------------------------------------------------------------------
(* cost_for_usage and the plan handlers *)

Max(a, b) == IF a >= b THEN a ELSE b

\* the cost without the clamp of the extras at zero
cost_unclamped(plan, minutes, data_gb) ==
    2 * plan.base_cost + 2 * (minutes - plan.included_minutes) * plan.cost_per_minute
    + (data_gb - plan.included_data_gb) * plan.cost_per_gb

\* the monthly cost in quarters: base_cost, cost_per_minute and cost_per_gb are in
\* halves, minutes are whole, data_gb is in halves
cost_for_usage(plan, minutes, data_gb) ==
    LET extra_minutes == Max(0, minutes - plan.included_minutes)
        extra_data_gb == Max(0, data_gb - plan.included_data_gb)
    IN  2 * plan.base_cost + 2 * extra_minutes * plan.cost_per_minute
        + extra_data_gb * plan.cost_per_gb

PMsg(kind, code, cost, flag) == [kind |-> kind, code |-> code, cost |-> cost, flag |-> flag]

Current == CHOOSE u \in current_usage : TRUE

\* a roaming test that forgets what the user asked for
SkippedAlways(plan, usage) == ~plan.roaming_included

\* the roaming test of lines 188 and 205
Skipped(plan, usage) == usage.roaming_required /\ ~plan.roaming_included

display_plan_costs(d, current) ==
    IF current = {} THEN <<PMsg("need_usage", <<>>, 0, FALSE)>>
    ELSE IF d = <<>> THEN <<PMsg("no_plans", <<>>, 0, FALSE)>>
    ELSE LET u == CHOOSE x \in current : TRUE IN
         [i \in 1..Len(d) |->
            PMsg("row", d[i].code, cost_for_usage(d[i].plan, u.minutes, u.data_gb),
                 ~Skipped(d[i].plan, u))]

\* a loop body that lets a later plan of equal cost win
BestStepLast(best, entry, u) ==
    IF u.roaming_required /\ ~entry.plan.roaming_included THEN best
    ELSE IF best = <<>>
            \/ cost_for_usage(entry.plan, u.minutes, u.data_gb) <= best[1].cost
         THEN <<[code |-> entry.code,
                 cost |-> cost_for_usage(entry.plan, u.minutes, u.data_gb)]>>
         ELSE best

\* one pass of the loop of lines 204-210; best is <<>> (None) or <<[code, cost]>>
BestStep(best, entry, u) ==
    IF Skipped(entry.plan, u) THEN best
    ELSE LET monthly == cost_for_usage(entry.plan, u.minutes, u.data_gb) IN
         IF best = <<>> \/ monthly < best[1].cost
         THEN <<[code |-> entry.code, cost |-> monthly]>>
         ELSE best

RECURSIVE BestScan(_, _, _)
BestScan(d, u, best) ==
    IF d = <<>> THEN best ELSE BestScan(Tail(d), u, BestStep(best, Head(d), u))

recommend_best_plan(d, current) ==
    IF current = {} THEN <<PMsg("need_usage", <<>>, 0, FALSE)>>
    ELSE IF d = <<>> THEN <<PMsg("no_plans", <<>>, 0, FALSE)>>
    ELSE LET best == BestScan(d, CHOOSE x \in current : TRUE, <<>>) IN
         IF best = <<>> THEN <<PMsg("none_eligible", <<>>, 0, FALSE)>>
         ELSE <<PMsg("recommended", best[1].code, best[1].cost,
                     Lookup(d, best[1].code).roaming_included)>>

Anonymous == <<"(", "A", "n", "o", "n", "y", "m", "o", "u", "s", ")">>

\* what the user may type at menu choice 1: the plan runs range over the usage,
\* the store runs over three profiles, two of them of one person
UsageInput(raw, minutes, data_gb, roaming) ==
    [raw |-> raw, minutes |-> minutes, data_gb |-> data_gb, roaming |-> roaming]
PlanInputs == {UsageInput(T(""), m, g, r) :
                  m \in 0..MaxMinutes, g \in 0..MaxData, r \in BOOLEAN}
StoreInputs == {UsageInput(T(""), 1, 1, FALSE), UsageInput(T("Al"), 0, 1, FALSE),
                UsageInput(T("Al"), 1, 0, TRUE)}
\* what the user may type at menu choice 6
LookupNames == {T("Al"), T(" Bo ")}

\* menu choice 1
EnterUsage(inputs) ==
    /\ pc = "menu"
    /\ \E in \in inputs :
          current_usage' =
              {[person_name |-> IF Strip(in.raw) = <<>> THEN Anonymous ELSE Strip(in.raw),
                minutes |-> in.minutes, data_gb |-> in.data_gb,
                roaming_required |-> in.roaming]}
    /\ last_op' = "enter_usage"
    /\ output' = NoOutput
    /\ ret' = None
    /\ UNCHANGED <<source, plans, usage_details, table_exists, clock, pc>>

\* menu choice 3
DisplayPlanCosts ==
    /\ pc = "menu"
    /\ output' = display_plan_costs(plans, current_usage)
    /\ last_op' = "display_plan_costs"
    /\ ret' = None
    /\ UNCHANGED <<source, plans, current_usage, usage_details, table_exists, clock, pc>>

\* menu choice 4
RecommendBestPlan ==
    /\ pc = "menu"
    /\ output' = recommend_best_plan(plans, current_usage)
    /\ last_op' = "recommend_best_plan"
    /\ ret' = None
    /\ UNCHANGED <<source, plans, current_usage, usage_details, table_exists, clock, pc>>

\* menu choice 8
Exit ==
    /\ pc = "menu"
    /\ pc' = "exited"
    /\ plans' = <<>>
    /\ current_usage' = {}
    /\ last_op' = "exit"
    /\ output' = NoOutput
    /\ ret' = None
    /\ UNCHANGED <<source, usage_details, table_exists, clock>>

\* the program is started again; the database file is what persists
Restart ==
    /\ pc \in {"exited", "crashed"}
    /\ pc' = "start"
    /\ source' = NoFile
    /\ plans' = <<>>
    /\ current_usage' = {}
    /\ last_op' = "none"
    /\ output' = NoOutput
    /\ ret' = None
    /\ UNCHANGED <<usage_details, table_exists, clock>>

----------------------------------------------------------------------------
(* The usage store *)

\* a schema set-up that drops the table first
init_db_recreate(exists, rows) == [exists |-> TRUE, rows |-> <<>>]

\* CREATE TABLE IF NOT EXISTS
init_db(exists, rows) == [exists |-> TRUE, rows |-> IF exists THEN rows ELSE <<>>]

MaxId(rows) == IF rows = <<>> THEN 0
               ELSE CHOOSE m \in {rows[i].id : i \in 1..Len(rows)} :
                        \A i \in 1..Len(rows) : rows[i].id <= m

\* INSERT INTO usage_details ...: id by AUTOINCREMENT, created_at by its DEFAULT
save_usage(rows, person_name, minutes, data_gb, roaming, now) ==
    Append(rows, [id |-> MaxId(rows) + 1,
                  person_name |-> person_name,
                  minutes |-> minutes,
                  data_gb |-> data_gb,
                  roaming_required |-> IF roaming THEN 1 ELSE 0,
                  created_at |-> now])

\* SELECT ... WHERE person_name = ? ORDER BY created_at DESC LIMIT 1: every row the
\* query may return.  Rows with equal created_at come in an order SQL leaves open.
SelectLatest(rows, person_name) ==
    LET mine == {i \in 1..Len(rows) : rows[i].person_name = person_name}
    IN  {rows[i] : i \in {j \in mine :
                           \A k \in mine : rows[k].created_at <= rows[j].created_at}}

\* load_usage: the values it may return
load_usage(rows, person_name) ==
    IF SelectLatest(rows, person_name) = {} THEN {None}
    ELSE {Ret("tuple", row.minutes, row.data_gb, row.roaming_required # 0) :
             row \in SelectLatest(rows, person_name)}

RECURSIVE SumOf(_, _)
SumOf(rows, col) == IF rows = <<>> THEN 0 ELSE Head(rows)[col] + SumOf(Tail(rows), col)

MinOf(rows, col) == CHOOSE m \in {rows[i][col] : i \in 1..Len(rows)} :
                        \A i \in 1..Len(rows) : m <= rows[i][col]
MaxOf(rows, col) == CHOOSE m \in {rows[i][col] : i \in 1..Len(rows)} :
                        \A i \in 1..Len(rows) : m >= rows[i][col]

SMsg(kind, count, sum_min, sum_gb, min_min, max_min, min_gb, max_gb, pct_num, pct_den) ==
    [kind |-> kind, count |-> count, sum_minutes |-> sum_min, sum_data_gb |-> sum_gb,
     min_minutes |-> min_min, max_minutes |-> max_min,
     min_data_gb |-> min_gb, max_data_gb |-> max_gb,
     pct_num |-> pct_num, pct_den |-> pct_den]

\* statistics that take "nobody roams" for "no records"
show_stats_roam_guard(rows) ==
    IF Len(rows) = 0 \/ \A i \in 1..Len(rows) : rows[i].roaming_required = 0
    THEN <<[kind |-> "no_usage", count |-> 0, sum_minutes |-> 0, sum_data_gb |-> 0,
            min_minutes |-> 0, max_minutes |-> 0, min_data_gb |-> 0, max_data_gb |-> 0,
            pct_num |-> 0, pct_den |-> 0]>>
    ELSE <<[kind |-> "stats", count |-> Len(rows), sum_minutes |-> 0, sum_data_gb |-> 0,
            min_minutes |-> 0, max_minutes |-> 0, min_data_gb |-> 0, max_data_gb |-> 0,
            pct_num |-> 100 * Cardinality({i \in 1..Len(rows) :
                                             rows[i].roaming_required = 1}),
            pct_den |-> Len(rows)]>>

\* show_stats: the averages are sum / count; roaming_pct is pct_num / pct_den
show_stats(rows) ==
    LET count == Len(rows)
        roam_count == SumOf(rows, "roaming_required")
        total == Len(rows)
    IN  IF count = 0 THEN <<SMsg("no_usage", 0, 0, 0, 0, 0, 0, 0, 0, 0)>>
        ELSE <<SMsg("stats", count, SumOf(rows, "minutes"), SumOf(rows, "data_gb"),
                    MinOf(rows, "minutes"), MaxOf(rows, "minutes"),
                    MinOf(rows, "data_gb"), MaxOf(rows, "data_gb"),
                    roam_count * 100, Max(1, IF total = 0 THEN 1 ELSE total))>>

\* main, lines 228-230
InitDb ==
    /\ pc = "loaded"
    /\ table_exists' = init_db(table_exists, usage_details).exists
    /\ usage_details' = init_db(table_exists, usage_details).rows
    /\ current_usage' = {}
    /\ pc' = "menu"
    /\ last_op' = "init_db"
    /\ UNCHANGED <<source, plans, clock, output, ret>>

\* menu choice 5
SaveUsage ==
    /\ pc = "menu"
    /\ IF current_usage = {}
       THEN /\ usage_details' = usage_details
            /\ output' = <<PMsg("need_usage", <<>>, 0, FALSE)>>
       ELSE /\ Len(usage_details) < MaxRecords
            /\ usage_details' = save_usage(usage_details, Current.person_name,
                                           Current.minutes, Current.data_gb,
                                           Current.roaming_required, clock)
            /\ output' = <<PMsg("saved", <<>>, 0, FALSE)>>
    /\ last_op' = "save_usage"
    /\ ret' = None
    /\ UNCHANGED <<source, plans, current_usage, table_exists, clock, pc>>

\* menu choice 6
LoadUsage ==
    /\ pc = "menu"
    /\ \E raw \in LookupNames :
          \E loaded \in load_usage(usage_details, Strip(raw)) :
             /\ ret' = loaded
             /\ IF loaded = None
                THEN /\ current_usage' = current_usage
                     /\ output' = <<PMsg("not_found", Strip(raw), 0, FALSE)>>
                ELSE /\ current_usage' = {[person_name |-> Strip(raw),
                                           minutes |-> loaded.minutes,
                                           data_gb |-> loaded.data_gb,
                                           roaming_required |-> loaded.roaming]}
                     /\ output' = <<PMsg("loaded", Strip(raw), 0, FALSE)>>
    /\ last_op' = "load_usage"
    /\ UNCHANGED <<source, plans, usage_details, table_exists, clock, pc>>

\* menu choice 7
ShowStats ==
    /\ pc = "menu"
    /\ output' = show_stats(usage_details)
    /\ last_op' = "show_stats"
    /\ ret' = None
    /\ UNCHANGED <<source, plans, current_usage, usage_details, table_exists, clock, pc>>

\* a second passes
Tick ==
    /\ clock < MaxClock
    /\ clock' = clock + 1
    /\ UNCHANGED <<source, plans, current_usage, usage_details, table_exists,
                   pc, last_op, output, ret>>

----------------------------------------------------------------------------
(* Specifications: the loader alone, the plan handlers, the usage store *)

NextLoad == LoadPlans(LoadEntries, MaxEntries, FileDocs) \/ InitDb
SpecLoad == Init /\ [][NextLoad]_vars

NextPlan ==
    \/ LoadPlans(PlanEntries, MaxCatalog, {})
    \/ InitDb
    \/ EnterUsage(PlanInputs)
    \/ DisplayPlanCosts
    \/ RecommendBestPlan
SpecPlan == Init /\ [][NextPlan]_vars

NextStore ==
    \/ LoadPlans({}, 0, {NoFile})
    \/ InitDb
    \/ EnterUsage(StoreInputs)
    \/ SaveUsage
    \/ LoadUsage
    \/ ShowStats
    \/ Tick
    \/ Exit
    \/ Restart
SpecStore == Init /\ [][NextStore]_vars

Next == NextLoad \/ NextPlan \/ NextStore
Spec == Init /\ [][Next]_vars

----------------------------------------------------------------------------
(* Properties.  The words of the properties are defined here, apart from the *)
(* code's own tests.                                                         *)

Eligible(plan, usage) == ~(usage.roaming_required /\ ~plan.roaming_included)
CostAt(i) == cost_for_usage(plans[i].plan, Current.minutes, Current.data_gb)
PosOf(code) == CHOOSE i \in 1..Len(plans) : plans[i].code = code
Recommended ==
    /\ last_op = "recommend_best_plan"
    /\ output[1].kind = "recommended"

\* C1: a recommended plan is in the catalog, is eligible under the roaming rule, costs
\* no more than any eligible plan, and comes before every other eligible plan of the
\* same cost in catalog order.
C1_CheapestEligibleFirst ==
    Recommended =>
        /\ output[1].code \in Codes(plans)
        /\ Eligible(plans[PosOf(output[1].code)].plan, Current)
        /\ output[1].cost = CostAt(PosOf(output[1].code))
        /\ \A j \in 1..Len(plans) :
              Eligible(plans[j].plan, Current) =>
                  /\ output[1].cost <= CostAt(j)
                  /\ j < PosOf(output[1].code) => output[1].cost < CostAt(j)

\* a recommendation made where a later eligible plan costs the same and a plan is
\* ineligible
C1_Witness ==
    /\ Recommended
    /\ \E j \in 1..Len(plans) :
          /\ j > PosOf(output[1].code)
          /\ Eligible(plans[j].plan, Current)
          /\ CostAt(j) = output[1].cost
    /\ \E k \in 1..Len(plans) : ~Eligible(plans[k].plan, Current)

NoResult == output[1].kind \in {"no_plans", "none_eligible"}

\* C3: with a usage profile set, recommend_best_plan gives the no-result outcome exactly
\* when the catalog is empty or holds no eligible plan, and recommends a plan otherwise.
C3_NoResultIffNoneEligible ==
    (last_op = "recommend_best_plan" /\ current_usage # {}) =>
        /\ NoResult <=> (plans = <<>> \/ \A i \in 1..Len(plans) :
                                            ~Eligible(plans[i].plan, Current))
        /\ ~NoResult => output[1].kind = "recommended"

\* no result over a catalog of two plans or more, none of them with roaming
C3_Witness ==
    /\ last_op = "recommend_best_plan"
    /\ current_usage # {}
    /\ Len(plans) >= 2
    /\ output[1].kind = "none_eligible"

Over(used, included) == IF used > included THEN used - included ELSE 0

\* the formula of the claim, in quarters
FormulaCost(plan, m, g) ==
    2 * plan.base_cost + 2 * Over(m, plan.included_minutes) * plan.cost_per_minute
    + Over(g, plan.included_data_gb) * plan.cost_per_gb

CostsShown ==
    /\ last_op = "display_plan_costs"
    /\ current_usage # {}
    /\ plans # <<>>

\* C6: every cost shown for the current usage (m, g) is base_cost + max(0, m -
\* included_minutes) * cost_per_minute + max(0, g - included_data_gb) * cost_per_gb, and
\* is base_cost when the usage is within both allowances.
C6_CostFormula ==
    /\ CostsShown =>
          \A i \in 1..Len(plans) :
             /\ output[i].code = plans[i].code
             /\ output[i].cost = FormulaCost(plans[i].plan, Current.minutes, Current.data_gb)
             /\ (/\ Current.minutes <= plans[i].plan.included_minutes
                 /\ Current.data_gb <= plans[i].plan.included_data_gb)
                    => output[i].cost = 2 * plans[i].plan.base_cost
    /\ Recommended =>
          output[1].cost = FormulaCost(Lookup(plans, output[1].code),
                                       Current.minutes, Current.data_gb)

\* costs shown for a plan within both allowances, a plan over its minutes and a plan
\* over its data
C6_Witness ==
    /\ CostsShown
    /\ \E i \in 1..Len(plans) :
          /\ Current.minutes <= plans[i].plan.included_minutes
          /\ Current.data_gb <= plans[i].plan.included_data_gb
    /\ \E i \in 1..Len(plans) : Current.minutes > plans[i].plan.included_minutes
    /\ \E i \in 1..Len(plans) : Current.data_gb > plans[i].plan.included_data_gb

\* C7: for every plan of the catalog the cost does not decrease when the minutes and the
\* data grow.
C7_Monotone ==
    \A i \in 1..Len(plans) :
       \A m1 \in 0..MaxMinutes, m2 \in 0..MaxMinutes, g1 \in 0..MaxData, g2 \in 0..MaxData :
          (m1 <= m2 /\ g1 <= g2) =>
              cost_for_usage(plans[i].plan, m1, g1) <= cost_for_usage(plans[i].plan, m2, g2)

Items == IF source.kind = "object" /\ source.has_plans THEN source.plans ELSE <<>>
Loaded == pc \in {"loaded", "menu"}

\* an entry that is no object, lacks a field, or holds a value that does not convert
Malformed(item) ==
    \/ item.t # "object"
    \/ \E i \in 1..Len(FieldOrder) : item.f[FieldOrder[i]].t = "absent"
    \/ \E i \in 1..Len(FieldOrder) : Coerce(item, FieldOrder[i]).err # "none"

ValidAt(code) == {i \in 1..Len(Items) : ~Malformed(Items[i]) /\ EntryCode(Items[i]) = code}
FirstAt(code) == CHOOSE i \in ValidAt(code) : \A j \in ValidAt(code) : i <= j
LastAt(code) == CHOOSE i \in ValidAt(code) : \A j \in ValidAt(code) : i >= j
UniqueCodes == \A i, j \in 1..Len(plans) : plans[i].code = plans[j].code => i = j
LastWins ==
    /\ UniqueCodes
    /\ \A i \in 1..Len(plans) :
          /\ ValidAt(plans[i].code) # {}
          /\ plans[i].plan = EntryPlan(Items[LastAt(plans[i].code)])
    /\ \A k \in 1..Len(Items) : ~Malformed(Items[k]) => EntryCode(Items[k]) \in Codes(plans)

\* the valid entries of the source that the catalog's i-th plan may have come from
Holders(i) == {k \in ValidAt(plans[i].code) : EntryPlan(Items[k]) = plans[i].plan}

\* the plans from the i-th on are entries declared, in this order, after position k
RECURSIVE DeclaredInOrder(_, _)
DeclaredInOrder(i, k) ==
    \/ i > Len(plans)
    \/ \E h \in Holders(i) : h > k /\ DeclaredInOrder(i + 1, h)

\* C10 as stated: the catalog holds, under each code, the last valid entry declared with
\* it, and iterates over the entries it holds in the order the source declares them.
C10_DeclarationOrder ==
    Loaded => (LastWins /\ DeclaredInOrder(1, 0))

\* C10, amended: the catalog holds, under each code, the last valid entry declared with
\* it, and iterates over the codes in the order of their first valid declaration.
C10_FirstDeclarationOrder ==
    Loaded =>
        /\ LastWins
        /\ \A i, j \in 1..Len(plans) :
              i < j => FirstAt(plans[i].code) < FirstAt(plans[j].code)

\* a code declared twice with another code declared in between, then the catalog used
\* for a recommendation
C10_Witness ==
    /\ pc = "menu"
    /\ last_op = "recommend_best_plan"
    /\ \E i, j \in 1..Len(plans) :
          /\ i < j
          /\ FirstAt(plans[i].code) < FirstAt(plans[j].code)
          /\ LastAt(plans[i].code) > LastAt(plans[j].code)
          /\ EntryPlan(Items[FirstAt(plans[i].code)]) # plans[i].plan

Warnings == {i \in 1..Len(output) : output[i].kind = "warn_entry"}

\* C4: load_plans on a plans list never aborts, returns the valid entries and nothing
\* half built, warns once per malformed entry, and notes a short catalog exactly when
\* fewer than five plans were loaded.
C4_LoadIsolatesEntries ==
    (last_op = "load_plans" /\ source.kind = "object") =>
        /\ pc # "crashed"
        /\ LastWins
        /\ Cardinality(Warnings) = Cardinality({k \in 1..Len(Items) : Malformed(Items[k])})
        /\ (\E i \in 1..Len(output) : output[i].kind = "note_few") <=> Len(plans) < MinPlans

\* C5: every plan of the loaded catalog has a trimmed, non-empty code, non-negative
\* numbers, and the boolean its entry declares.
C5_PlanDataModel ==
    Loaded =>
        \A i \in 1..Len(plans) :
           /\ plans[i].code # <<>>
           /\ Strip(plans[i].code) = plans[i].code
           /\ plans[i].plan.base_cost >= 0
           /\ plans[i].plan.included_minutes >= 0
           /\ plans[i].plan.included_data_gb >= 0
           /\ plans[i].plan.cost_per_minute >= 0
           /\ plans[i].plan.cost_per_gb >= 0
           /\ plans[i].plan.roaming_included \in BOOLEAN
           /\ \A k \in ValidAt(plans[i].code) :
                 (k = LastAt(plans[i].code) /\ Items[k].f.roaming_included.t = "bool")
                     => plans[i].plan.roaming_included
                            = (Items[k].f.roaming_included.n = 1)

RowsOf(name) == {i \in 1..Len(usage_details) : usage_details[i].person_name = name}
NewestOf(name) == usage_details[CHOOSE i \in RowsOf(name) : \A j \in RowsOf(name) : i >= j]

\* C2: load_usage(name) returns the minutes, data_gb and roaming of the record saved
\* last under that name, whatever was saved before it and however soon before.
C2_LoadReturnsLastSaved ==
    (last_op = "load_usage" /\ RowsOf(output[1].code) # {}) =>
        /\ ret.kind = "tuple"
        /\ ret.minutes = NewestOf(output[1].code).minutes
        /\ ret.data_gb = NewestOf(output[1].code).data_gb
        /\ ret.roaming = (NewestOf(output[1].code).roaming_required = 1)

Saves == SaveUsage /\ current_usage # {}

\* C8: usage_details only grows: a save appends one record holding the current profile,
\* nothing else changes the table, init_db on an existing table keeps its records, and
\* every stored roaming_required is 0 or 1.
C8_AppendOnly ==
    [][/\ Saves => /\ Len(usage_details') = Len(usage_details) + 1
                   /\ SubSeq(usage_details', 1, Len(usage_details)) = usage_details
                   /\ usage_details'[Len(usage_details')].person_name = Current.person_name
                   /\ usage_details'[Len(usage_details')].minutes = Current.minutes
                   /\ usage_details'[Len(usage_details')].data_gb = Current.data_gb
       /\ ~Saves => usage_details' = usage_details
       /\ \A i \in 1..Len(usage_details') : usage_details'[i].roaming_required \in {0, 1}
       /\ \A i, j \in 1..Len(usage_details') :
             usage_details'[i].id = usage_details'[j].id => i = j]_vars

\* init_db has run on a table that holds records of a roaming and a non-roaming profile
C8_Witness ==
    /\ last_op = "init_db"
    /\ \E i \in 1..Len(usage_details) : usage_details[i].roaming_required = 1
    /\ \E i \in 1..Len(usage_details) : usage_details[i].roaming_required = 0

Roamers == {i \in 1..Len(usage_details) : usage_details[i].roaming_required = 1}

\* C9: show_stats reports the empty result exactly when the table holds no record and
\* never divides by zero; otherwise count is the number of records and roaming_pct is
\* the records with roaming_required = 1 times 100 over count, whoever they belong to.
C9_StatsOverAllRecords ==
    last_op = "show_stats" =>
        /\ output[1].kind = "no_usage" <=> Len(usage_details) = 0
        /\ output[1].kind \in {"no_usage", "stats"}
        /\ output[1].kind = "stats" =>
              /\ output[1].pct_den # 0
              /\ output[1].count = Len(usage_details)
              /\ output[1].pct_num * output[1].count
                    = 100 * Cardinality(Roamers) * output[1].pct_den

\* statistics over the records of two persons, none of them roaming
C9_Witness ==
    /\ last_op = "show_stats"
    /\ output[1].kind = "stats"
    /\ Roamers = {}
    /\ \E i, j \in 1..Len(usage_details) :
          usage_details[i].person_name # usage_details[j].person_name

====
